---------------------------- MODULE Spec2Model ----------------------------
(* StarTrack web application (src/WebApp/StarTrackWebApp.py): the pass     *)
(* calculation (calculate_trajectory) and the four request handlers that   *)
(* drive the ESP32 tracking device (calculate, upload_and_start, command,  *)
(* status).  Each handler is one action.  The orbital library (skyfield)   *)
(* and the device behind requests.post/get are the environment: what they  *)
(* return or raise is drawn from small sets.                               *)
(*                                                                         *)
(* Numbers: angles are integers in thousandths of a degree, instants are   *)
(* integers in 1/SubSec of a second, so that ":.2f" and int() are          *)
(* conversions that lose something.  Time arithmetic is exact to the       *)
(* second (skyfield keeps a Time as whole day + fraction).                 *)
EXTENDS Integers, Sequences, FiniteSets, TLC

VARIABLES
    op,       \* the handler that served the last request ("none" at start)
    request,  \* the JSON body of that request
    calc,     \* what calculate_trajectory saw and returned in that request
    outcome,  \* what the caller received: [http, raised, body]
    calls,    \* the network calls that request made to the device, in order
    replies,  \* the device's answer to each of those calls
    sent      \* network calls made to the device since start

vars == <<op, request, calc, outcome, calls, replies, sent>>

---------------------------------------------------------------------------
(* Bounds of the model *)

\* duration_seconds is 600 in the source (line 63); the window is scaled down
duration_seconds == 15
\* instants are counted in 1/SubSec second
SubSec == 2
\* the Unix second in which the first modelled request can arrive
Epoch0 == 1000
\* whole seconds in which a request can arrive: Epoch0 .. Epoch0 + NowSeconds - 1
NowSeconds == 1
\* cap on the network calls counted in sent
MaxSent == 3

(* Program constants *)
time_step_seconds == 5
DEFAULT_LAT == 39860
DEFAULT_LON == -84380
DEFAULT_ALT_M == 300
UPLOAD_TIMEOUT == 5
COMMAND_TIMEOUT == 5
STATUS_TIMEOUT == 2
HTTP_OK == 200

ISS_TLE_LINES == <<"1 25544U 98067A", "2 25544  51.6421">>

---------------------------------------------------------------------------
(* Python values *)

\* None / a value: a sequence of length 0 / 1
None == <<>>
Some(x) == <<x>>

\* the empty str
EmptyStr == <<>>

\* a message: its fixed text and the part formatted into it
Msg(text, detail) == [text |-> text, detail |-> detail]

Abs(x) == IF x < 0 THEN -x ELSE x

\* f"{x:.2f}" of x thousandths: sign and hundredths, rounded to nearest
\* ("-0.00" for -0.004: sign kept, hundredths 0)
Format2(x) == [neg |-> x < 0, centi |-> (Abs(x) + 5) \div 10]

\* range(start, stop, step), step > 0
RangeStep(start, stop, step) ==
    LET n == IF stop <= start THEN 0 ELSE (stop - start + step - 1) \div step
    IN  [k \in 1..n |-> start + (k - 1) * step]

\* "|".join(parts): the parts with one "|" between neighbours
RECURSIVE Join(_)
Join(parts) ==
    IF parts = <<>> THEN EmptyStr
    ELSE IF Len(parts) = 1 THEN <<parts[1]>>
    ELSE <<parts[1], [kind |-> "|"]>> \o Join(Tail(parts))

\* truth value of an optional str: None and "" are false
Truthy(opt) == opt # None /\ opt[1] # EmptyStr


---------------------------------------------------------------------------
(* calculate_trajectory *)

\* ts.now(): the instants at which a request can arrive
NowSet == {Epoch0 * SubSec + f : f \in 0..(NowSeconds * SubSec - 1)}

\* start_time's calendar fields down to the whole second (the sub-second part
\* of now is not passed to ts.utc)
StartSecond(now) == now \div SubSec

\* t_start = ts.utc(year, month, day, hour, minute, second)
t_start(now) == StartSecond(now) * SubSec

\* the offsets i of the ticks: range(0, duration_seconds + 1, time_step_seconds)
\* (variant: range(0, duration_seconds, time_step_seconds))
TickOffsetsOpenEnd == RangeStep(0, duration_seconds, time_step_seconds)
TickOffsets == RangeStep(0, duration_seconds + 1, time_step_seconds)

\* times: t_start + i / 86400.0 days, i.e. i seconds after t_start
\* (variant: the position in the range used in place of the offset i)
TimesByPosition(now) ==
    [k \in 1..Len(TickOffsets) |-> t_start(now) + (k - 1) * SubSec]
Times(now) ==
    [k \in 1..Len(TickOffsets) |-> t_start(now) + TickOffsets[k] * SubSec]

\* int(times[i].ts): the Unix second of the instant, fraction cut off
epoch_time(t) == t \div SubSec

\* the horizon filter: el_deg >= 0
\* (variant: the filter applied to the elevation rounded to 2 decimals)
AboveHorizonRounded(el_deg) == el_deg >= 0 \/ Format2(el_deg).centi = 0
AboveHorizon(el_deg) == el_deg >= 0

\* point = f"{epoch_time},{az_deg:.2f},{el_deg:.2f}"
Point(t, az_deg, el_deg) ==
    [kind |-> "point", epoch |-> epoch_time(t),
     az |-> Format2(az_deg), el |-> Format2(el_deg)]

\* the loop over range(len(times)) that fills trajectory_points, from index i
RECURSIVE TrajectoryPoints(_, _, _, _)
TrajectoryPoints(times, az, el, i) ==
    IF i > Len(times) THEN <<>>
    ELSE (IF AboveHorizon(el[i]) THEN <<Point(times[i], az[i], el[i])>> ELSE <<>>)
         \o TrajectoryPoints(times, az, el, i + 1)

NotVisibleMessage ==
    Msg("Satellite not visible in the selected 10 minute window.", "")

\* f"Calculation Error: {str(e)}"
\* (variant: the except branch answering with the not-visible message)
CalculationErrorMessageSame(e) == NotVisibleMessage
CalculationErrorMessage(e) == Msg("Calculation Error: ", e)

\* f"Calculated {len(trajectory_points)} points over {duration_seconds/60} minutes."
CalculatedMessage(n) == Msg("Calculated points over minutes.", ToString(n))

\* what skyfield does in one call: it raises, or it gives one azimuth and one
\* elevation per instant of times
ElevSet == {-4, 0, 45670}
AzSet == {0, 359996}
LibOutcomes ==
    {[raises |-> TRUE, error |-> e, az |-> <<>>, el |-> <<>>] : e \in {"ValueError"}}
    \cup
    {[raises |-> FALSE, error |-> "", az |-> [k \in 1..Len(TickOffsets) |-> a], el |-> e] :
        a \in AzSet, e \in [1..Len(TickOffsets) -> ElevSet]}

\* the function without its "if not trajectory_points" return
calculate_trajectory_no_empty_check(tle_lines, observer_lat, observer_lon, observer_alt_m, now, lib) ==
    IF lib.raises THEN <<None, CalculationErrorMessage(lib.error)>>
    ELSE LET trajectory_points == TrajectoryPoints(Times(now), lib.az, lib.el, 1)
         IN  <<Some(Join(trajectory_points)), CalculatedMessage(Len(trajectory_points))>>

\* returns <<dsv_string, message>>
calculate_trajectory(tle_lines, observer_lat, observer_lon, observer_alt_m, now, lib) ==
    IF lib.raises THEN <<None, CalculationErrorMessage(lib.error)>>
    ELSE LET trajectory_points == TrajectoryPoints(Times(now), lib.az, lib.el, 1)
         IN  IF Len(trajectory_points) = 0
             THEN <<None, NotVisibleMessage>>
             ELSE <<Some(Join(trajectory_points)), CalculatedMessage(Len(trajectory_points))>>

\* the record of a request in which calculate_trajectory was not called
NoCalc ==
    [called |-> FALSE, now |-> 0, raises |-> FALSE, az |-> <<>>, el |-> <<>>,
     ret |-> <<None, Msg("", "")>>]

---------------------------------------------------------------------------
(* Outcomes *)

Json(http, body) == [http |-> http, raised |-> FALSE, body |-> body]

\* an exception no handler catches: Flask answers 500 with its own error page
Unhandled(e) == [http |-> 500, raised |-> TRUE, body |-> [error |-> e]]

---------------------------------------------------------------------------
(* POST /api/calculate *)

Number(v) == [numeric |-> TRUE, val |-> v]
NotANumber == [numeric |-> FALSE, val |-> 0]

\* request.json of a calculate request: not an object, or an object whose
\* latitude / longitude are absent, numbers or text that is no number
CalcBodies ==
    { [object |-> FALSE, latitude |-> None, longitude |-> None],
      [object |-> TRUE, latitude |-> None, longitude |-> None],
      [object |-> TRUE, latitude |-> Some(Number(10000)), longitude |-> Some(Number(-20000))],
      [object |-> TRUE, latitude |-> Some(NotANumber), longitude |-> None] }

\* data.get(key, default)
GetOr(opt, default) == IF opt = None THEN Number(default) ELSE opt[1]

ServerErrorMessage(e) == Msg("Server Error during calculation: ", e)

api_calculate(data, now, lib) ==
    IF ~data.object
    THEN [outcome |-> Json(500, [success |-> FALSE, message |-> ServerErrorMessage("AttributeError")]),
          calc |-> NoCalc]
    ELSE LET lat == GetOr(data.latitude, DEFAULT_LAT)
             lon == GetOr(data.longitude, DEFAULT_LON)
         IN  IF ~lat.numeric \/ ~lon.numeric
             THEN [outcome |-> Json(500, [success |-> FALSE, message |-> ServerErrorMessage("ValueError")]),
                   calc |-> NoCalc]
             ELSE LET ret == calculate_trajectory(ISS_TLE_LINES, lat.val, lon.val, DEFAULT_ALT_M, now, lib)
                      dsv_string == ret[1]
                      message == ret[2]
                  IN  [outcome |->
                          IF Truthy(dsv_string)
                          THEN Json(HTTP_OK, [success |-> TRUE, message |-> message,
                                              trajectory_string |-> dsv_string[1]])
                          ELSE Json(400, [success |-> FALSE, message |-> message]),
                       calc |-> [called |-> TRUE, now |-> now, raises |-> lib.raises,
                                 az |-> lib.az, el |-> lib.el, ret |-> ret]]

---------------------------------------------------------------------------
(* The device behind requests.post / requests.get *)

\* requests raises (exc names the exception) or returns a response
TransportErrors == {"ConnectionError", "Timeout", "TooManyRedirects"}
StatusCodes == {HTTP_OK, 201, 404, 500}

Raised(e) == [exc |-> e, status_code |-> 0, text |-> ""]
Response(code, text) == [exc |-> "", status_code |-> code, text |-> text]

\* answers of the upload and command endpoints
DeviceReplies ==
    {Raised(e) : e \in TransportErrors} \cup {Response(c, "OK") : c \in StatusCodes}

\* answers of the status endpoint: a report, or a body that is no JSON
IdleReport == [status |-> "IDLE", epoch_time |-> Epoch0]
TrackingReport == [status |-> "TRACKING", epoch_time |-> Epoch0, az |-> 180000, el |-> 45000]
StatusReplies ==
    {Raised(e) : e \in TransportErrors}
    \cup {Response(c, t) : c \in StatusCodes, t \in {"idle", "tracking", "<html>"}}

\* response.json(): the parsed body, or None when requests raises its
\* JSONDecodeError (a RequestException) on a body that is no JSON
ResponseJson(text) ==
    CASE text = "idle" -> Some(IdleReport)
      [] text = "tracking" -> Some(TrackingReport)
      [] OTHER -> None

\* except requests.exceptions.RequestException: the exceptions it catches
\* (variant: except requests.exceptions.ConnectionError)
IsConnectionErrorOnly(e) == e = "ConnectionError"
IsRequestException(e) == e \in TransportErrors \cup {"JSONDecodeError"}

\* response.status_code == 200
\* (variant: any 2xx status, as response.ok would accept)
IsAnySuccessCode(code) == code >= 200 /\ code < 300
IsOk(code) == code = HTTP_OK

\* the replies one requests.post / requests.get call site consumes, given what
\* the device would answer to a first and to a second call: one call, one reply
\* (variant: a second call after a first that raised)
AttemptsWithRetry(rs) == IF rs[1].exc # "" THEN <<rs[1], rs[2]>> ELSE <<rs[1]>>
Attempts(rs) == <<rs[1]>>

ConnectErrorMessage(e) == Msg("Error connecting to ESP32 at 192.168.4.1: ", e)

\* the result of a handler: what the caller receives, the calls it made
Result(outcome_, calls_, replies_) ==
    [outcome |-> outcome_, calls |-> calls_, replies |-> replies_]

---------------------------------------------------------------------------
(* POST /api/upload_and_start *)

\* strings a client can post as trajectory_string
UploadStrings ==
    { EmptyStr,
      Join(<<Point(Epoch0 * SubSec, 0, 0)>>),
      Join(<<Point(Epoch0 * SubSec, 0, 45670),
             Point((Epoch0 + time_step_seconds) * SubSec, 359996, 45670)>>) }

UploadBodies ==
    { [object |-> FALSE, trajectory_string |-> None],
      [object |-> TRUE, trajectory_string |-> None] }
    \cup {[object |-> TRUE, trajectory_string |-> Some(s)] : s \in UploadStrings}

\* the guard "if not trajectory_string"
MissingTrajectory(trajectory_string) == ~Truthy(trajectory_string)

api_upload_and_start(data, rs) ==
    IF ~data.object THEN Result(Unhandled("AttributeError"), <<>>, <<>>)
    ELSE LET trajectory_string == data.trajectory_string
         IN  IF MissingTrajectory(trajectory_string)
             THEN Result(Json(400, [success |-> FALSE,
                                    message |-> Msg("Missing trajectory string.", "")]),
                         <<>>, <<>>)
             ELSE LET got == Attempts(rs)
                      response == got[Len(got)]
                      made == [k \in 1..Len(got) |->
                                 [method |-> "POST", url |-> "/upload_trajectory",
                                  payload |-> trajectory_string[1],
                                  timeout |-> UPLOAD_TIMEOUT]]
                  IN  IF response.exc # ""
                      THEN IF IsRequestException(response.exc)
                           THEN Result(Json(503, [success |-> FALSE,
                                                  message |-> ConnectErrorMessage(response.exc)]),
                                       made, got)
                           ELSE Result(Unhandled(response.exc), made, got)
                      ELSE IF IsOk(response.status_code)
                      THEN Result(Json(HTTP_OK,
                                       [success |-> TRUE,
                                        message |-> Msg("Trajectory successfully uploaded and tracking initiated on ESP32.", ""),
                                        esp32_response |-> response.text]),
                                  made, got)
                      ELSE Result(Json(502,
                                       [success |-> FALSE,
                                        message |-> Msg("ESP32 Upload Failed. Status Code: ",
                                                        ToString(response.status_code)),
                                        esp32_response |-> response.text]),
                                  made, got)

---------------------------------------------------------------------------
(* POST /api/command *)

CommandBodies ==
    { [object |-> FALSE, cmd |-> None], [object |-> TRUE, cmd |-> None] }
    \cup {[object |-> TRUE, cmd |-> Some(c)] : c \in {"HOME", "STOP", "FOO", "home", ""}}

\* the guard: command in ["HOME", "STOP"]
\* (variant: the comparison made without regard to case)
ValidCommandAnyCase(command) == command # None /\ command[1] \in {"HOME", "STOP", "home", "stop"}
ValidCommand(command) == command # None /\ command[1] \in {"HOME", "STOP"}

api_command(data, rs) ==
    IF ~data.object THEN Result(Unhandled("AttributeError"), <<>>, <<>>)
    ELSE LET command == data.cmd
         IN  IF ~ValidCommand(command)
             THEN Result(Json(400, [success |-> FALSE, message |-> Msg("Invalid command.", "")]),
                         <<>>, <<>>)
             ELSE LET got == Attempts(rs)
                      response == got[Len(got)]
                      made == [k \in 1..Len(got) |->
                                 [method |-> "POST", url |-> "/command",
                                  payload |-> [cmd |-> command[1]],
                                  timeout |-> COMMAND_TIMEOUT]]
                  IN  IF response.exc # ""
                      THEN IF IsRequestException(response.exc)
                           THEN Result(Json(503, [success |-> FALSE,
                                                  message |-> ConnectErrorMessage(response.exc)]),
                                       made, got)
                           ELSE Result(Unhandled(response.exc), made, got)
                      ELSE IF IsOk(response.status_code)
                      THEN Result(Json(HTTP_OK,
                                       [success |-> TRUE,
                                        message |-> Msg("Command sent successfully.", command[1]),
                                        esp32_response |-> response.text]),
                                  made, got)
                      ELSE Result(Json(502,
                                       [success |-> FALSE,
                                        message |-> Msg("ESP32 Command Failed. Status Code: ",
                                                        ToString(response.status_code)),
                                        esp32_response |-> response.text]),
                                  made, got)

---------------------------------------------------------------------------
(* GET /api/status *)

OfflineUnreachable ==
    Json(503, [status |-> "OFFLINE", message |-> Msg("Could not reach ESP32 at 192.168.4.1", "")])

api_status(rs) ==
    LET got == Attempts(rs)
        response == got[Len(got)]
        made == [k \in 1..Len(got) |->
                   [method |-> "GET", url |-> "/status", payload |-> None,
                    timeout |-> STATUS_TIMEOUT]]
    IN  IF response.exc # ""
        THEN IF IsRequestException(response.exc)
             THEN Result(OfflineUnreachable, made, got)
             ELSE Result(Unhandled(response.exc), made, got)
        ELSE IF IsOk(response.status_code)
        THEN LET parsed == ResponseJson(response.text)
             IN  IF parsed = None
                 THEN IF IsRequestException("JSONDecodeError")
                      THEN Result(OfflineUnreachable, made, got)
                      ELSE Result(Unhandled("JSONDecodeError"), made, got)
                 ELSE Result(Json(HTTP_OK, parsed[1]), made, got)
        ELSE Result(Json(502, [status |-> "OFFLINE",
                               message |-> Msg("ESP32 status error: ",
                                               ToString(response.status_code))]),
                    made, got)

---------------------------------------------------------------------------
(* The state machine *)

NoBody == [object |-> FALSE]

Init ==
    /\ op = "none"
    /\ request = NoBody
    /\ calc = NoCalc
    /\ outcome = Json(0, [success |-> TRUE, message |-> Msg("", "")])
    /\ calls = <<>>
    /\ replies = <<>>
    /\ sent = 0

\* every request a handler can serve with everything its environment can do in
\* it, and the handler's result
CalculateRuns ==
    {[data |-> data, r |-> api_calculate(data, now, lib)] :
        data \in CalcBodies, now \in NowSet, lib \in LibOutcomes}
UploadRuns ==
    {[data |-> data, r |-> api_upload_and_start(data, rs)] :
        data \in UploadBodies, rs \in DeviceReplies \X DeviceReplies}
CommandRuns ==
    {[data |-> data, r |-> api_command(data, rs)] :
        data \in CommandBodies, rs \in DeviceReplies \X DeviceReplies}
StatusRuns ==
    {[data |-> NoBody, r |-> api_status(rs)] : rs \in StatusReplies \X StatusReplies}

Calculate ==
    \E run \in CalculateRuns :
        /\ op' = "calculate"
        /\ request' = run.data
        /\ calc' = run.r.calc
        /\ outcome' = run.r.outcome
        /\ calls' = <<>>
        /\ replies' = <<>>
        /\ UNCHANGED sent

Upload ==
    \E run \in UploadRuns :
        /\ sent + Len(run.r.calls) <= MaxSent
        /\ op' = "upload"
        /\ request' = run.data
        /\ calc' = NoCalc
        /\ outcome' = run.r.outcome
        /\ calls' = run.r.calls
        /\ replies' = run.r.replies
        /\ sent' = sent + Len(run.r.calls)

Command ==
    \E run \in CommandRuns :
        /\ sent + Len(run.r.calls) <= MaxSent
        /\ op' = "command"
        /\ request' = run.data
        /\ calc' = NoCalc
        /\ outcome' = run.r.outcome
        /\ calls' = run.r.calls
        /\ replies' = run.r.replies
        /\ sent' = sent + Len(run.r.calls)

Status ==
    \E run \in StatusRuns :
        /\ sent + Len(run.r.calls) <= MaxSent
        /\ op' = "status"
        /\ request' = run.data
        /\ calc' = NoCalc
        /\ outcome' = run.r.outcome
        /\ calls' = run.r.calls
        /\ replies' = run.r.replies
        /\ sent' = sent + Len(run.r.calls)

Next == Calculate \/ Upload \/ Command \/ Status

Spec == Init /\ [][Next]_vars

---------------------------------------------------------------------------
(* Properties *)

\* the points of a trajectory string, in order
PointsOf(str) == SelectSeq(str, LAMBDA tok : tok.kind = "point")

\* the last request was a calculation that returned a trajectory string
Returned == op = "calculate" /\ calc.called /\ calc.ret[1] # None

\* the index in times of the tick whose Unix second is e
TickOf(times, e) == CHOOSE k \in DOMAIN times : epoch_time(times[k]) = e

\* the last request was a calculation that ran to its end and found every
\* tick below the horizon
NothingVisible ==
    /\ op = "calculate" /\ calc.called /\ ~calc.raises
    /\ \A k \in DOMAIN calc.el : calc.el[k] < 0

DeviceOps == {"upload", "command", "status"}

\* C1: every point of a returned trajectory comes from a tick whose elevation
\* is >= 0 and carries that tick's elevation; a tick with elevation < 0 has no
\* point in the output (it is dropped, not written with elevation 0).
C1_HorizonFilter ==
    Returned =>
        LET pts == PointsOf(calc.ret[1][1])
            times == Times(calc.now)
        IN  /\ \A j \in 1..Len(pts) :
                  \E k \in DOMAIN times :
                      /\ epoch_time(times[k]) = pts[j].epoch
                      /\ calc.el[k] >= 0
                      /\ pts[j].el = Format2(calc.el[k])
            /\ \A k \in DOMAIN times :
                  calc.el[k] < 0 =>
                      \A j \in 1..Len(pts) : pts[j].epoch # epoch_time(times[k])
            /\ outcome.body.success => outcome.body.trajectory_string = calc.ret[1][1]

C1_Witness ==
    /\ Returned
    /\ outcome.body.success
    /\ \E k \in DOMAIN calc.el : calc.el[k] = -4
    /\ \E k \in DOMAIN calc.el : calc.el[k] = 0
    /\ Len(PointsOf(outcome.body.trajectory_string)) < Len(calc.el)

\* C2: the instants of a returned trajectory are strictly increasing in output
\* order; two adjacent points from consecutive ticks are exactly one step
\* apart; a larger distance is a multiple of the step and all ticks between
\* the two points were below the horizon.
C2_InstantsIncreasing ==
    Returned =>
        LET pts == PointsOf(calc.ret[1][1])
            times == Times(calc.now)
        IN  \A j \in 1..(Len(pts) - 1) :
                LET d == pts[j + 1].epoch - pts[j].epoch
                    kp == TickOf(times, pts[j].epoch)
                    kq == TickOf(times, pts[j + 1].epoch)
                IN  /\ d > 0
                    /\ kq > kp
                    /\ kq = kp + 1 => d = time_step_seconds
                    /\ d # time_step_seconds =>
                          /\ d > time_step_seconds
                          /\ d % time_step_seconds = 0
                          /\ \A k \in (kp + 1)..(kq - 1) : calc.el[k] < 0

C2_Witness ==
    /\ Returned
    /\ LET pts == PointsOf(calc.ret[1][1])
       IN  /\ Len(pts) = 3
           /\ pts[2].epoch - pts[1].epoch = time_step_seconds
           /\ pts[3].epoch - pts[2].epoch = 2 * time_step_seconds

\* C3: a calculation in which no tick is above the horizon ends with the "not
\* visible" message, as a failure and never as a success, and no other
\* calculation ends with that message: one that raised ends with a
\* "Calculation Error" message, so the two differ in what the caller receives.
C3_NotVisibleDistinct ==
    op = "calculate" =>
        /\ NothingVisible <=> calc.ret = <<None, NotVisibleMessage>>
        /\ NothingVisible <=> outcome.body.message = NotVisibleMessage
        /\ NothingVisible => ~outcome.body.success
        /\ (calc.called /\ calc.raises) =>
              /\ ~outcome.body.success
              /\ outcome.body.message # NotVisibleMessage
              /\ outcome.body.message.text = "Calculation Error: "

C3_Witness ==
    /\ NothingVisible
    /\ outcome.http = 400
    /\ outcome.body = [success |-> FALSE, message |-> NotVisibleMessage]

\* C4: a command request whose cmd is not HOME or STOP (a missing cmd
\* included) fails and makes no network call; every call to the device's
\* command endpoint is made by a command request whose cmd is HOME or STOP,
\* and its payload names exactly that command.
C4_CommandClosedSet ==
    /\ op = "command" =>
          /\ ~(request.cmd # None /\ request.cmd[1] \in {"HOME", "STOP"}) =>
                /\ calls = <<>>
                /\ outcome.http >= 400
                /\ "success" \in DOMAIN outcome.body => ~outcome.body.success
          /\ \A k \in 1..Len(calls) :
                /\ calls[k].url = "/command"
                /\ request.cmd # None
                /\ request.cmd[1] \in {"HOME", "STOP"}
                /\ calls[k].payload = [cmd |-> request.cmd[1]]
    /\ \A k \in 1..Len(calls) : calls[k].url = "/command" => op = "command"

C4_Witness ==
    /\ op = "command"
    /\ request.cmd = Some("FOO")
    /\ calls = <<>>
    /\ outcome.http = 400
    /\ sent > 0

\* C5: a status request never ends in an exception; when the call to the
\* device fails in transport (refused, timed out, any other), the caller gets
\* the one Offline outcome; the device's report is returned only when the
\* device answered 200, and is then the report the device sent.
C5_StatusOffline ==
    op = "status" =>
        /\ ~outcome.raised
        /\ Len(replies) >= 1
        /\ replies[1].exc # "" =>
              /\ outcome.http = 503
              /\ outcome.body = [status |-> "OFFLINE",
                                 message |-> Msg("Could not reach ESP32 at 192.168.4.1", "")]
        /\ outcome.http = HTTP_OK =>
              /\ replies[1].exc = ""
              /\ replies[1].status_code = 200
              /\ Some(outcome.body) = ResponseJson(replies[1].text)
        /\ outcome.http # HTTP_OK => outcome.body.status = "OFFLINE"

C5_Witness ==
    /\ op = "status"
    /\ replies[1].exc = "ConnectionError"
    /\ outcome.body.status = "OFFLINE"
    /\ ~outcome.raised

\* C6: an upload or command request that reached the device call reports
\* success exactly when the device answered 200; any other answer gives a 502
\* failure whose message carries the device's status code; a transport failure
\* or timeout gives a 503 "Error connecting" failure.
C6_DeviceOutcomes ==
    (op \in {"upload", "command"} /\ calls # <<>>) =>
        LET r == replies[Len(replies)]
        IN  /\ ~outcome.raised
            /\ outcome.body.success <=> (r.exc = "" /\ r.status_code = 200)
            /\ outcome.body.success <=> outcome.http = 200
            /\ (r.exc = "" /\ r.status_code # 200) =>
                  /\ outcome.http = 502
                  /\ outcome.body.message.detail = ToString(r.status_code)
                  /\ outcome.body.message.text \in
                        {"ESP32 Upload Failed. Status Code: ",
                         "ESP32 Command Failed. Status Code: "}
            /\ r.exc # "" =>
                  /\ outcome.http = 503
                  /\ outcome.body.message =
                        Msg("Error connecting to ESP32 at 192.168.4.1: ", r.exc)

C6_Witness ==
    /\ op = "upload"
    /\ calls # <<>>
    /\ replies[1].status_code = 404
    /\ outcome.http = 502
    /\ ~outcome.body.success

\* C7: an upload, command or status request makes at most one network call,
\* and when that call fails the failure is what the caller gets.
C7_OneAttempt ==
    op \in DeviceOps =>
        /\ Len(calls) <= 1
        /\ Len(replies) = Len(calls)
        /\ (calls # <<>> /\ (replies[1].exc # "" \/ replies[1].status_code # 200)) =>
              outcome.http \in {502, 503}

C7_Witness ==
    /\ op = "upload"
    /\ Len(calls) = 1
    /\ replies[1].exc = "Timeout"
    /\ outcome.http = 503
    /\ sent = MaxSent

\* C8: every outcome of every operation carries a success flag and a message.
C8_FlagAndMessage ==
    op # "none" => {"success", "message"} \subseteq DOMAIN outcome.body

\* C9: calculate_trajectory never returns an empty trajectory string (with no
\* tick above the horizon it returns None), a successful calculation carries a
\* non-empty string, an upload request with a missing or empty trajectory
\* string makes no network call, and every payload sent to the upload
\* endpoint is non-empty.
C9_NoEmptyTrajectory ==
    /\ (op = "calculate" /\ calc.called) =>
          /\ calc.ret[1] # None => calc.ret[1][1] # EmptyStr
          /\ NothingVisible => calc.ret[1] = None
          /\ outcome.body.success =>
                /\ outcome.body.trajectory_string # EmptyStr
                /\ Len(PointsOf(outcome.body.trajectory_string)) >= 1
    /\ (op = "upload" /\ (request.trajectory_string = None
                          \/ request.trajectory_string[1] = EmptyStr)) =>
          /\ calls = <<>>
          /\ outcome.http >= 400
    /\ \A k \in 1..Len(calls) :
          calls[k].url = "/upload_trajectory" => calls[k].payload # EmptyStr

C9_Witness ==
    /\ op = "upload"
    /\ request.trajectory_string = Some(EmptyStr)
    /\ calls = <<>>
    /\ outcome.http = 400

\* C10: the instants handed to the library are exactly start + k*step for the
\* k >= 0 with k*step <= duration (121 of them for step 5 and duration 600);
\* every instant of a returned trajectory is one of them, the first is >= the
\* window start, the last is <= start + duration, and the trajectory has
\* between 1 and duration/step + 1 points.
C10_TickGrid ==
    /\ Len(RangeStep(0, 600 + 1, time_step_seconds)) = 121
    /\ (op = "calculate" /\ calc.called /\ ~calc.raises) =>
          LET times == Times(calc.now)
              start == StartSecond(calc.now)
              grid == {start + k * time_step_seconds : k \in
                         {n \in 0..duration_seconds : n * time_step_seconds <= duration_seconds}}
          IN  /\ {epoch_time(times[k]) : k \in DOMAIN times} = grid
              /\ Len(times) = Cardinality(grid)
              /\ Len(calc.el) = Len(times)
              /\ \A k \in DOMAIN times : times[k] = epoch_time(times[k]) * SubSec
              /\ Returned =>
                    LET pts == PointsOf(calc.ret[1][1])
                    IN  /\ \A j \in 1..Len(pts) : pts[j].epoch \in grid
                        /\ pts[1].epoch >= start
                        /\ pts[Len(pts)].epoch <= start + duration_seconds
                        /\ Len(pts) >= 1
                        /\ Len(pts) <= duration_seconds \div time_step_seconds + 1

C10_Witness ==
    /\ Returned
    /\ LET pts == PointsOf(calc.ret[1][1])
       IN  /\ Len(pts) = duration_seconds \div time_step_seconds + 1
           /\ pts[1].epoch = StartSecond(calc.now)
           /\ pts[Len(pts)].epoch = StartSecond(calc.now) + duration_seconds
           /\ calc.now # t_start(calc.now)

=============================================================================
